---- MODULE Spec2Model ----
(***************************************************************************)
(* Pricing subproblem solver (label-setting ESPP-RC search) of             *)
(* rust pricing/src/pricing.rs, with the driver of main.rs.                *)
(*                                                                         *)
(* Numbers.  f64 costs, duals, demands and kilometres are integers; all    *)
(* locations lie on one meridian, one latitude unit being one kilometre,   *)
(* where the haversine distance is the absolute latitude difference.       *)
(* Instants are whole minutes since 00:00 UTC of the planning date.        *)
(***************************************************************************)
EXTENDS Integers, Sequences, FiniteSets, TLC

\* ---------------------------------------------------------------- bounds
MaxCustomers == 3
MaxStops == 3
MaxOracleFailures == 1

\* ------------------------------------------------- the input envelope
\* models.rs InputData: the scalar parameters of the solve.
max_capacity == 3
cost_per_km == 1
speed_kmh == 80
service_time == 5
departure_hour == 8

\* Warehouse catalogue: id -> latitude (km along the meridian).
WarehouseCatalogue == <<[id |-> 1, lat |-> 0], [id |-> 2, lat |-> 6]>>

\* Customer catalogue: id, latitude, demand ("capacity"), window in minutes UTC.
CustomerCatalogue ==
  << [id |-> 1, lat |-> 2, capacity |-> 1, window_start |-> 0,   window_end |-> 600],
     [id |-> 2, lat |-> 4, capacity |-> 1, window_start |-> 130, window_end |-> 150],
     [id |-> 3, lat |-> 5, capacity |-> 1, window_start |-> 100, window_end |-> 131],
     [id |-> 4, lat |-> 1, capacity |-> 3, window_start |-> 0,   window_end |-> 600],
     [id |-> 5, lat |-> 3, capacity |-> 1, window_start |-> 122, window_end |-> 126] >>

\* The text of a numeric id, as format!("{}", id) prints it.
Decimal(n) == <<"1", "2", "3", "4", "5", "6", "7", "8", "9">>[n]

\* dual_values as the master LP may send it: keyed by the customer id's text.
DualCatalogue ==
  [k \in {"1", "2", "3", "5"} |->
     CASE k = "1" -> 9 [] k = "2" -> 8 [] k = "3" -> 7 [] k = "5" -> 9]
\* Every dual zero: customers 1 and 2 with a 0.0 entry, the others with none.
ZeroDuals == [k \in {"1", "2"} |-> 0]

VARIABLES
  envelope,        \* "ok", "bad_json" or "bad_date": what the driver reads
  warehouses,      \* HashMap<String, Warehouse>: node id -> record
  customers,       \* HashMap<String, Customer>: node id -> record
  dual_values,     \* HashMap<String, f64>
  max_stops,
  allow_violate_time_window,
  wOrder,          \* iteration order of warehouses.keys() in this process
  cOrder,          \* iteration order of customers.keys() in this process
  graph,           \* DiGraph arcs, in insertion order
  pc,
  whIdx,           \* position in wOrder of the starting warehouse
  labels,          \* node -> Seq of retained labels
  queue,           \* VecDeque of labels
  cur,             \* the label popped from the queue
  edgesLeft,       \* arcs of the popped label not yet considered
  best_path,       \* Option<PathResult>: << >> or <<record>>
  best_reduced_cost,
  oracleLog,       \* history: every call of calculate_with_executable
  closures,        \* history: every closing extension generated
  run,             \* history: 1 for the first invocation, 2 for a re-invocation
  firstResult,     \* history: what the first invocation returned
  fifo,            \* history: labels pushed on and popped from this search's queue
  explored         \* history, per invocation and search: labels generated, arcs refused

vars == <<envelope, warehouses, customers, dual_values, max_stops,
          allow_violate_time_window, wOrder, cOrder, graph, pc, whIdx, labels,
          queue, cur, edgesLeft, best_path, best_reduced_cost, oracleLog,
          closures, run, firstResult, fifo, explored>>

inputVars == <<envelope, warehouses, customers, dual_values, max_stops,
               allow_violate_time_window>>

\* ------------------------------------------------------------- helpers
Range(s) == {s[i] : i \in 1..Len(s)}

Permutations_(S) ==
  {p \in [1..Cardinality(S) -> S] : \A i, j \in 1..Cardinality(S) : p[i] = p[j] => i = j}

Abs(x) == IF x < 0 THEN -x ELSE x

Max(a, b) == IF a >= b THEN a ELSE b

\* Mutant: the quotient is rounded to the nearest whole number.
TruncDiv_Nearest(a, b) == (2 * a + b) \div (2 * b)

\* f64 division followed by "as i64": truncation toward zero.
TruncDiv(a, b) == IF a >= 0 THEN a \div b ELSE -((-a) \div b)

\* --------------------------------------------------------- node identifiers
WNode(id) == <<"W_", Decimal(id)>>
CNode(id) == <<"C_", Decimal(id)>>
starts_with(node, prefix) == node[1] = prefix

\* The number a node id was printed from.
IdOf(node) == CHOOSE n \in 1..9 : Decimal(n) = node[2]

Ascending(order) ==
  \A i, j \in 1..Len(order) : i < j => IdOf(order[i]) < IdOf(order[j])

Descending(order) ==
  \A i, j \in 1..Len(order) : i < j => IdOf(order[i]) > IdOf(order[j])

Rotations(p) ==
  {[i \in 1..Len(p) |-> p[((i - 1 + r) % Len(p)) + 1]] : r \in 0..(Len(p) - 1)}

\* Orders in which a HashMap with key set S is iterated: the ascending and
\* the descending id order and their rotations (every order up to 3 keys).
KeyOrders(S) ==
  IF S = {} THEN {<< >>}
  ELSE Rotations(CHOOSE p \in Permutations_(S) : Ascending(p))
         \cup Rotations(CHOOSE p \in Permutations_(S) : Descending(p))

\* ------------------------------------------------------------ geometry
haversine_distance(p1, p2) == Abs(p2 - p1)

get_coords(node) ==
  IF starts_with(node, "W_") THEN warehouses[node].lat ELSE customers[node].lat

\* ------------------------------------------------------- graph builder
\* Mutant: the dual of the arc's tail is subtracted instead of its head's.
add_edge_DualOfSource(u, v, duals) ==
  LET distance_km == haversine_distance(get_coords(u), get_coords(v))
      cost == cost_per_km * distance_km
  IN  [u |-> u, v |-> v, cost |-> cost,
       travel_time |-> TruncDiv(60 * distance_km, speed_kmh),
       reduced_cost |->
         IF starts_with(u, "C_")
         THEN cost - (IF u[2] \in DOMAIN duals THEN duals[u[2]] ELSE 0)
         ELSE cost]

add_edge(u, v, duals) ==
  LET distance_km == haversine_distance(get_coords(u), get_coords(v))
      cost == cost_per_km * distance_km
      travel_time == TruncDiv(60 * distance_km, speed_kmh)
      reduced_cost ==
        IF starts_with(v, "C_")
        THEN LET cust_id == v[2]
             IN  cost - (IF cust_id \in DOMAIN duals THEN duals[cust_id] ELSE 0)
        ELSE cost
  IN  [u |-> u, v |-> v, cost |-> cost, travel_time |-> travel_time,
       reduced_cost |-> reduced_cost]

RECURSIVE WhCustEdges(_, _, _)
WhCustEdges(whs, custs, duals) ==
  IF whs = << >> THEN << >>
  ELSE LET RECURSIVE Inner(_)
           Inner(cs) ==
             IF cs = << >> THEN << >>
             ELSE <<add_edge(Head(whs), Head(cs), duals),
                    add_edge(Head(cs), Head(whs), duals)>> \o Inner(Tail(cs))
       IN  Inner(custs) \o WhCustEdges(Tail(whs), custs, duals)

RECURSIVE CustCustEdges(_, _, _)
CustCustEdges(c1s, custs, duals) ==
  IF c1s = << >> THEN << >>
  ELSE LET RECURSIVE Inner(_)
           Inner(cs) ==
             IF cs = << >> THEN << >>
             ELSE (IF Head(c1s) # Head(cs)
                   THEN <<add_edge(Head(c1s), Head(cs), duals)>>
                   ELSE << >>) \o Inner(Tail(cs))
       IN  Inner(custs) \o CustCustEdges(Tail(c1s), custs, duals)

\* Mutant: the test cust1 != cust2 is missing, every customer gets an arc to
\* itself.
build_edges_SelfLoops(warehouse_nodes, customer_nodes, duals) ==
  WhCustEdges(warehouse_nodes, customer_nodes, duals)
    \o CustCustEdges(customer_nodes, customer_nodes, duals)
    \o [i \in 1..Len(customer_nodes) |->
          add_edge(customer_nodes[i], customer_nodes[i], duals)]

build_edges(warehouse_nodes, customer_nodes, duals) ==
  WhCustEdges(warehouse_nodes, customer_nodes, duals)
    \o CustCustEdges(customer_nodes, customer_nodes, duals)

\* petgraph's graph.edges(a): the outgoing arcs of a, most recently added first.
OutgoingOf(g, node) ==
  LET out == SelectSeq(g, LAMBDA e : e.u = node)
  IN  [k \in 1..Len(out) |-> out[Len(out) + 1 - k]]

edges(node) == OutgoingOf(graph, node)

\* ----------------------------------------------------------------- Init
WarehouseMaps ==
  {[n \in {WNode(WarehouseCatalogue[i].id) : i \in 1..k} |->
      CHOOSE w \in Range(WarehouseCatalogue) : WNode(w.id) = n]
    : k \in 0..Len(WarehouseCatalogue)}

CustomerMaps ==
  {[n \in {CNode(c.id) : c \in S} |-> CHOOSE c \in S : CNode(c.id) = n]
    : S \in {T \in SUBSET Range(CustomerCatalogue) : Cardinality(T) <= MaxCustomers}}

NoLabel == [cost |-> 0, time |-> 0, cap |-> 0, path |-> << >>]

\* Nothing generated and nothing refused, in either invocation, in the search
\* from any position of the warehouse order.
NothingExplored ==
  [r \in {1, 2} |->
     [flag |-> FALSE,
      generated |-> [i \in 1..Len(WarehouseCatalogue) |-> << >>],
      rejected |-> [i \in 1..Len(WarehouseCatalogue) |-> << >>]]]

Init ==
  /\ envelope \in {"ok", "bad_json", "bad_date"}
  /\ warehouses \in WarehouseMaps
  /\ customers \in CustomerMaps
  /\ dual_values \in {ZeroDuals, DualCatalogue}
  /\ max_stops \in {0, 1, 2, MaxStops}
  \* The flag is read only when a closure improves, which zero duals exclude.
  /\ allow_violate_time_window \in (IF dual_values = ZeroDuals THEN {FALSE} ELSE BOOLEAN)
  /\ wOrder \in Permutations_(DOMAIN warehouses)
  /\ cOrder \in KeyOrders(DOMAIN customers)
  /\ graph = << >>
  /\ pc = "main"
  /\ whIdx = 0
  /\ labels = << >>
  /\ queue = << >>
  /\ cur = NoLabel
  /\ edgesLeft = << >>
  /\ best_path = << >>
  /\ best_reduced_cost = 0
  /\ oracleLog = << >>
  /\ closures = << >>
  /\ run = 1
  /\ firstResult = << >>
  /\ fifo = [pushed |-> << >>, popped |-> << >>]
  /\ explored = NothingExplored


\* --------------------------------------------------------------- driver
\* main: from_str fails on malformed JSON and the process exits non-zero;
\* planning_date is a String field and is not parsed here.
MainParseError ==
  /\ pc = "main"
  /\ envelope = "bad_json"
  /\ pc' = "exit_error"
  /\ UNCHANGED <<inputVars, wOrder, cOrder, graph, whIdx, labels, queue, cur,
                 edgesLeft, best_path, best_reduced_cost, oracleLog, closures,
                 run, firstResult, fifo,
                 explored>>

\* Mutant: the best reduced cost starts at the largest value, as in a plain
\* minimum search.
InitialBest_Largest == 1000 * 1000

\* let mut best_reduced_cost = 0.0
InitialBest == 0

\* main: PricingProblem::new builds the graph, then find_negative_path starts
\* with best_path = None and best_reduced_cost = 0.0.
MainNew ==
  /\ pc = "main"
  /\ envelope # "bad_json"
  /\ graph' = build_edges(wOrder, cOrder, dual_values)
  /\ best_path' = << >>
  /\ best_reduced_cost' = InitialBest
  /\ whIdx' = 1
  /\ pc' = "next_wh"
  /\ explored' = [explored EXCEPT ![run].flag = allow_violate_time_window]
  /\ UNCHANGED <<inputVars, wOrder, cOrder, labels, queue, cur, edgesLeft,
                 oracleLog, closures, run, firstResult, fifo>>

\* --------------------------------------------------- find_negative_path
start_wh == wOrder[whIdx]

\* Mutant: the local hour is taken as a UTC hour.
departure_time_LocalAsUtc == departure_hour * 60

\* "{planning_date}T{hour:02}:00:00+06:00" converted to UTC.
departure_time == departure_hour * 60 - 6 * 60

InitialLabel(wh) == [cost |-> 0, time |-> departure_time, cap |-> 0, path |-> <<wh>>]

NodeSet == DOMAIN warehouses \cup DOMAIN customers

\* The parse of the departure instant, inside the loop over warehouses.
DatePanic ==
  /\ pc = "next_wh"
  /\ whIdx <= Len(wOrder)
  /\ envelope = "bad_date"
  /\ pc' = "panic"
  /\ UNCHANGED <<inputVars, wOrder, cOrder, graph, whIdx, labels, queue, cur,
                 edgesLeft, best_path, best_reduced_cost, oracleLog, closures,
                 run, firstResult, fifo,
                 explored>>

\* Mutant: the label store of the previous warehouse's search is kept.
FreshLabels_Keep(wh) ==
  IF labels = << >>
  THEN [n \in NodeSet |-> IF n = wh THEN <<InitialLabel(wh)>> ELSE << >>]
  ELSE [labels EXCEPT ![wh] = Append(@, InitialLabel(wh))]

\* let mut labels = HashMap::new(); labels.insert(start_idx, vec![initial])
FreshLabels(wh) ==
  [n \in NodeSet |-> IF n = wh THEN <<InitialLabel(wh)>> ELSE << >>]

StartWarehouse ==
  /\ pc = "next_wh"
  /\ whIdx <= Len(wOrder)
  /\ envelope # "bad_date"
  /\ labels' = FreshLabels(start_wh)
  /\ queue' = <<InitialLabel(start_wh)>>
  /\ fifo' = [pushed |-> <<InitialLabel(start_wh)>>, popped |-> << >>]
  /\ explored' = [explored EXCEPT ![run].generated[whIdx] = <<InitialLabel(start_wh)>>,
                                  ![run].rejected[whIdx] = << >>]
  /\ pc' = "pop"
  /\ UNCHANGED <<inputVars, wOrder, cOrder, graph, whIdx, cur, edgesLeft,
                 best_path, best_reduced_cost, oracleLog, closures, run,
                 firstResult>>

\* The loop over warehouses is over: best_path is returned.
Return ==
  /\ pc = "next_wh"
  /\ whIdx > Len(wOrder)
  /\ pc' = "done"
  /\ UNCHANGED <<inputVars, wOrder, cOrder, graph, whIdx, labels, queue, cur,
                 edgesLeft, best_path, best_reduced_cost, oracleLog, closures,
                 run, firstResult, fifo,
                 explored>>

\* Mutant: the frontier is a stack, the newest label is taken.
pop_front_Newest(q) ==
  [label |-> q[Len(q)], rest |-> SubSeq(q, 1, Len(q) - 1)]

\* VecDeque::pop_front on a non-empty queue: the oldest label and the rest.
pop_front(q) == [label |-> Head(q), rest |-> Tail(q)]

\* while let Some(label) = queue.pop_front()
PopLabel ==
  /\ pc = "pop"
  /\ queue # << >>
  /\ cur' = pop_front(queue).label
  /\ queue' = pop_front(queue).rest
  /\ edgesLeft' = edges(pop_front(queue).label.path[Len(pop_front(queue).label.path)])
  /\ fifo' = [fifo EXCEPT !.popped = Append(@, pop_front(queue).label)]
  /\ pc' = "edges"
  /\ UNCHANGED <<inputVars, wOrder, cOrder, graph, whIdx, labels, best_path,
                 best_reduced_cost, oracleLog, closures, run, firstResult,
                 explored>>

\* Mutant: the loop over warehouses does not advance.
NextWarehouse_Stay(i) == i

\* for start_wh in self.warehouses.keys(): on to the next key.
NextWarehouse(i) == i + 1

\* The frontier of this warehouse is exhausted.
QueueEmpty ==
  /\ pc = "pop"
  /\ queue = << >>
  /\ whIdx' = NextWarehouse(whIdx)
  /\ pc' = "next_wh"
  /\ UNCHANGED <<inputVars, wOrder, cOrder, graph, labels, queue, cur,
                 edgesLeft, best_path, best_reduced_cost, oracleLog, closures,
                 run, firstResult, fifo,
                 explored>>

EdgesDone ==
  /\ pc = "edges"
  /\ edgesLeft = << >>
  /\ pc' = "pop"
  /\ UNCHANGED <<inputVars, wOrder, cOrder, graph, whIdx, labels, queue, cur,
                 edgesLeft, best_path, best_reduced_cost, oracleLog, closures,
                 run, firstResult, fifo,
                 explored>>

\* ------------------------------------------------ the body of the arc loop
customer_count(path) ==
  Cardinality({i \in 1..Len(path) : starts_with(path[i], "C_")})

contains(path, node) == \E i \in 1..Len(path) : path[i] = node

\* Mutant: arcs into any warehouse are followed.
OtherWarehouse_Never(next_node, start) == FALSE

\* Only the starting warehouse may be returned to.
OtherWarehouse(next_node, start) ==
  starts_with(next_node, "W_") /\ next_node # start

\* Mutant: the stop budget is reached one customer early.
StopsOrDuplicate_OffByOne(path, next_node) ==
  /\ starts_with(next_node, "C_")
  /\ \/ customer_count(path) + 1 >= max_stops
     \/ contains(path, next_node)

\* Mutant: the stop budget lets one customer more through.
StopsOrDuplicate_OverBudget(path, next_node) ==
  /\ starts_with(next_node, "C_")
  /\ \/ customer_count(path) > max_stops
     \/ contains(path, next_node)

\* Mutant: the duplicate test is dropped.
StopsOrDuplicate_NoDuplicateCheck(path, next_node) ==
  starts_with(next_node, "C_") /\ customer_count(path) >= max_stops

\* For customers: the stop budget and no duplicates.
StopsOrDuplicate(path, next_node) ==
  /\ starts_with(next_node, "C_")
  /\ \/ customer_count(path) >= max_stops
     \/ contains(path, next_node)

\* Mutant: the vehicle does not wait for the window to open.
WaitForWindow_NoWait(arrival_time, cust) == arrival_time

\* arrival_time.max(cust.window_start)
WaitForWindow(arrival_time, cust) == Max(arrival_time, cust.window_start)

ArrivesLate(arrival_time, cust) == arrival_time > cust.window_end

ServiceEnd(arrival_time) == arrival_time + service_time

\* Mutant: with allow_violate_time_window set, a late end of service is let
\* through.
ServiceLate_UnlessAllowed(service_end, cust) ==
  ~allow_violate_time_window /\ service_end > cust.window_end

\* Mutant: the end of service is not compared with the window.
ServiceLate_Never(service_end, cust) == FALSE

ServiceLate(service_end, cust) == service_end > cust.window_end

\* Mutant: the demand overwrites the load instead of adding to it.
NewCap_Overwrite(current_cap, cust) == cust.capacity

NewCap(current_cap, cust) == current_cap + cust.capacity

OverCapacity(new_cap) == new_cap > max_capacity

\* Mutant: the vehicle is counted empty when it returns to the warehouse.
ReturnCap_Unloaded(current_cap) == 0

\* new_cap on an arc into the warehouse: "else { current_cap }".
ReturnCap(current_cap) == current_cap

\* One iteration of "for edge in self.graph.edges(last_idx)" up to the
\* closure test: what the iteration decides and the label it proposes.
Extend(label, edge, start) ==
  LET next_node == edge.v
      isCust == starts_with(next_node, "C_")
      cust == customers[next_node]
      arrival0 == label.time + edge.travel_time
      arrival1 == IF isCust THEN WaitForWindow(arrival0, cust) ELSE arrival0
      service_end == ServiceEnd(arrival1)
      new_cap == IF isCust THEN NewCap(label.cap, cust) ELSE ReturnCap(label.cap)
      arrival_time == IF isCust THEN service_end ELSE arrival0
      kind ==
        IF OtherWarehouse(next_node, start) THEN "other_warehouse"
        ELSE IF StopsOrDuplicate(label.path, next_node) THEN "stops_or_duplicate"
        ELSE IF isCust /\ ArrivesLate(arrival1, cust) THEN "arrives_late"
        ELSE IF isCust /\ ServiceLate(service_end, cust) THEN "service_late"
        ELSE IF isCust /\ OverCapacity(new_cap) THEN "over_capacity"
        ELSE "feasible"
  IN  [kind |-> kind,
       label |-> [cost |-> label.cost + edge.reduced_cost,
                  time |-> arrival_time,
                  cap |-> new_cap,
                  path |-> Append(label.path, next_node)]]

\* Mutant: no extension is treated as closing.
IsClosing_Never(next_node, start, count) == FALSE

\* Complete path: back at the start warehouse with at least one customer.
IsClosing(next_node, start, count) == next_node = start /\ count >= 1

\* Mutant: every closure counts as an improvement.
Improves_Always(new_cost, best) == TRUE

\* Mutant: a tie with the best reduced cost counts as an improvement.
Improves_OrEqual(new_cost, best) == new_cost <= best

\* Mutant: an improvement must beat the best by more than one unit.
Improves_Margin(new_cost, best) == new_cost < best - 1

Improves(new_cost, best) == new_cost < best

\* Mutant: only the cost is compared.
is_dominated_CostOnly(node, cost, time, capacity, lbls) ==
  /\ node \in DOMAIN lbls
  /\ \E i \in 1..Len(lbls[node]) : lbls[node][i].cost <= cost

is_dominated(node, cost, time, capacity, lbls) ==
  /\ node \in DOMAIN lbls
  /\ \E i \in 1..Len(lbls[node]) :
       /\ lbls[node][i].cost <= cost
       /\ lbls[node][i].time <= time
       /\ lbls[node][i].cap <= capacity


\* ------------------------------------------------------ path refinement
Infinity == 1000000

\* self.graph.edges_connecting(u, v).next(), cost converted back to distance.
get_edge_distance(u, v) ==
  LET conn == SelectSeq(edges(u), LAMBDA e : e.v = v)
  IN  IF conn # << >> THEN conn[1].cost \div cost_per_km ELSE Infinity

RECURSIVE calculate_path_distance(_, _, _)
calculate_path_distance(start, custs, end) ==
  IF custs = << >> THEN get_edge_distance(start, end)
  ELSE get_edge_distance(start, Head(custs))
         + calculate_path_distance(Head(custs), Tail(custs), end)

\* new_path[i..=j].reverse(), positions counted from 1.
ReverseRange(s, i, j) ==
  [k \in 1..Len(s) |-> IF i <= k /\ k <= j THEN s[i + j - k] ELSE s[k]]

\* Mutant: no reversal is ever adopted.
Shorter_Never(new_dist, current_dist) == FALSE

\* Mutant: a reversal is adopted when it lengthens the route.
Shorter_Longer(new_dist, current_dist) == new_dist > current_dist

\* A reversal is adopted only when it shortens the route.
Shorter(new_dist, current_dist) == new_dist < current_dist

\* The two nested for loops of one pass of "while improved", from pair (i, j).
\* best_path is held as a value (b.best) at each pair, as the Vec is in the
\* code; pairs lists the pairs examined so far, positions counted from 1,
\* each with whether its reversal was adopted.
RECURSIVE TwoOptSweep(_, _, _, _, _, _, _)
TwoOptSweep(start, end, best, i, j, improved, pairs) ==
  IF i > Len(best) - 1 THEN [best |-> best, improved |-> improved, pairs |-> pairs]
  ELSE IF j > Len(best)
       THEN TwoOptSweep(start, end, best, i + 1, i + 2, improved, pairs)
  ELSE CHOOSE r \in
         { LET new_path == ReverseRange(b.best, i, j)
               current_dist == calculate_path_distance(start, b.best, end)
               new_dist == calculate_path_distance(start, new_path, end)
           IN  IF Shorter(new_dist, current_dist)
               THEN TwoOptSweep(start, end, new_path, i, j + 1, TRUE,
                                Append(b.pairs, [i |-> i, j |-> j, adopted |-> TRUE]))
               ELSE TwoOptSweep(start, end, b.best, i, j + 1, improved,
                                Append(b.pairs, [i |-> i, j |-> j, adopted |-> FALSE]))
           : b \in {[best |-> best, pairs |-> pairs]} } : TRUE

\* while improved { improved = false; one sweep }
RECURSIVE TwoOptLoop(_, _, _, _)
TwoOptLoop(start, end, best, pairs) ==
  CHOOSE b \in
    { IF r.improved
      THEN TwoOptLoop(start, end, r.best, r.pairs)
      ELSE [best |-> r.best, pairs |-> r.pairs]
      : r \in {TwoOptSweep(start, end, best, 1, 2, FALSE, pairs)} } : TRUE

\* Mutant: the closing warehouse is not put back.
optimize_path_order_NoEnd(path) ==
  IF Len(path) <= 2 THEN path
  ELSE <<path[1]>>
         \o TwoOptLoop(path[1], path[Len(path)],
                       SubSeq(path, 2, Len(path) - 1), << >>).best

optimize_path_order(path) ==
  IF Len(path) <= 2 THEN path
  ELSE <<path[1]>>
         \o TwoOptLoop(path[1], path[Len(path)],
                       SubSeq(path, 2, Len(path) - 1), << >>).best
         \o <<path[Len(path)]>>

\* The pairs (i, j) optimize_path_order examines on a path, in order.
PairsExamined(path) ==
  IF Len(path) <= 2 THEN << >>
  ELSE TwoOptLoop(path[1], path[Len(path)],
                  SubSeq(path, 2, Len(path) - 1), << >>).pairs

\* The ordering handed to the oracle and stored in the result.
\* Mutant: the refinement is applied whatever the flag.
OptimizedPath_Always(new_path) ==
  CHOOSE r \in {optimize_path_order(p) : p \in {new_path}} : TRUE

OptimizedPath(new_path) ==
  IF allow_violate_time_window
  THEN CHOOSE r \in {optimize_path_order(p) : p \in {new_path}} : TRUE
  ELSE new_path

\* ------------------------------------------------------ the trip-cost oracle
\* Sum of the arc costs of a node sequence (0.0 for a missing arc).
RECURSIVE calculate_path_cost(_)
calculate_path_cost(path) ==
  IF Len(path) < 2 THEN 0
  ELSE LET conn == SelectSeq(edges(path[1]), LAMBDA e : e.v = path[2])
       IN  (IF conn # << >> THEN conn[1].cost ELSE 0) + calculate_path_cost(Tail(path))

\* Minutes the vehicle waits for windows to open along a node sequence.
RECURSIVE WaitingMinutes(_, _)
WaitingMinutes(path, t) ==
  IF Len(path) < 2 THEN 0
  ELSE LET conn == SelectSeq(edges(path[1]), LAMBDA e : e.v = path[2])
           arr == t + (IF conn # << >> THEN conn[1].travel_time ELSE 0)
       IN  IF starts_with(path[2], "C_")
           THEN LET ws == customers[path[2]].window_start
                IN  Max(ws - arr, 0) + WaitingMinutes(Tail(path), Max(arr, ws) + service_time)
           ELSE WaitingMinutes(Tail(path), arr)

\* The total_cost the external calculator prints for a route: a fixed function
\* of the route and the departure (distance cost plus a waiting penalty).
OracleTotal(path, departure) ==
  10 * calculate_path_cost(path) + WaitingMinutes(path, departure)

OracleFailures == Cardinality({i \in 1..Len(oracleLog) : ~oracleLog[i].ok})

\* The payload of calculate_with_executable and what came back.
OracleCall(path, departure, ok, total) ==
  [run |-> run, path |-> path, departure |-> departure,
   cost_per_km |-> cost_per_km, speed_kmh |-> speed_kmh,
   service_minutes |-> service_time, max_capacity |-> max_capacity,
   max_stops |-> max_stops,
   allow_violate_time_window |-> FALSE, ok |-> ok, total_cost |-> total]

\* ----------------------------------------------- the arcs of the popped label
ext == Extend(cur, Head(edgesLeft), start_wh)

closing == IsClosing(Head(edgesLeft).v, start_wh, customer_count(cur.path))

ArcStep == pc = "edges" /\ edgesLeft # << >>

Closure(fate) ==
  [start |-> start_wh, path |-> ext.label.path, reduced_cost |-> ext.label.cost,
   best_before |-> best_reduced_cost, fate |-> fate,
   sent |-> IF fate = "not_improving" THEN << >> ELSE OptimizedPath(ext.label.path)]

\* "continue" before anything is proposed: only the arc is consumed.
SkipArc ==
  /\ edgesLeft' = Tail(edgesLeft)
  /\ UNCHANGED <<inputVars, wOrder, cOrder, graph, pc, whIdx, labels, queue,
                 cur, best_path, best_reduced_cost, oracleLog, closures, run,
                 firstResult, fifo,
                 explored>>

\* "continue" on a window or capacity test: the arc is consumed, nothing is
\* proposed.
RejectArc ==
  /\ edgesLeft' = Tail(edgesLeft)
  /\ explored' = [explored EXCEPT ![run].rejected[whIdx] =
                    Append(@, [path |-> cur.path, next_node |-> Head(edgesLeft).v,
                               kind |-> ext.kind])]
  /\ UNCHANGED <<inputVars, wOrder, cOrder, graph, pc, whIdx, labels, queue,
                 cur, best_path, best_reduced_cost, oracleLog, closures, run,
                 firstResult, fifo>>

SkipOtherWarehouse ==
  /\ ArcStep
  /\ ext.kind = "other_warehouse"
  /\ SkipArc

SkipStopsOrDuplicate ==
  /\ ArcStep
  /\ ext.kind = "stops_or_duplicate"
  /\ SkipArc

RejectArrivesLate ==
  /\ ArcStep
  /\ ext.kind = "arrives_late"
  /\ RejectArc

RejectServiceLate ==
  /\ ArcStep
  /\ ext.kind = "service_late"
  /\ RejectArc

RejectOverCapacity ==
  /\ ArcStep
  /\ ext.kind = "over_capacity"
  /\ RejectArc

\* A closure that does not beat the best reduced cost: no oracle call.
CloseNotImproving ==
  /\ ArcStep
  /\ ext.kind = "feasible"
  /\ closing
  /\ ~Improves(ext.label.cost, best_reduced_cost)
  /\ closures' = Append(closures, Closure("not_improving"))
  /\ edgesLeft' = Tail(edgesLeft)
  /\ UNCHANGED <<inputVars, wOrder, cOrder, graph, pc, whIdx, labels, queue,
                 cur, best_path, best_reduced_cost, oracleLog, run, firstResult, fifo,
                 explored>>

\* Mutant: the label path is stored instead of the ordering sent.
StoredPath_Label(optimized_path, new_path) == new_path

\* PathResult { path: optimized_path, .. }
StoredPath(optimized_path, new_path) == optimized_path

\* An improving closure, the oracle answering Ok(total_cost).
CloseOracleOk ==
  /\ ArcStep
  /\ ext.kind = "feasible"
  /\ closing
  /\ Improves(ext.label.cost, best_reduced_cost)
  /\ LET optimized_path == OptimizedPath(ext.label.path)
           total == OracleTotal(optimized_path, departure_time)
       IN  /\ oracleLog' = Append(oracleLog,
                             OracleCall(optimized_path, departure_time, TRUE, total))
           /\ best_reduced_cost' = ext.label.cost
           /\ best_path' = <<[path |-> StoredPath(optimized_path, ext.label.path),
                              reduced_cost |-> ext.label.cost,
                              cost |-> total,
                              capacity |-> ext.label.cap]>>
  /\ closures' = Append(closures, Closure("oracle_ok"))
  /\ edgesLeft' = Tail(edgesLeft)
  /\ UNCHANGED <<inputVars, wOrder, cOrder, graph, pc, whIdx, labels, queue,
                 cur, run, firstResult, fifo,
                 explored>>

\* Mutant: a failed call clears the best record.
BestAfterOracleErr_Reset == [path |-> << >>, reduced_cost |-> 0]

\* What an Err from the oracle leaves of the best record: eprintln! only.
BestAfterOracleErr == [path |-> best_path, reduced_cost |-> best_reduced_cost]

\* An improving closure, the oracle call failing.
CloseOracleErr ==
  /\ ArcStep
  /\ ext.kind = "feasible"
  /\ closing
  /\ Improves(ext.label.cost, best_reduced_cost)
  /\ OracleFailures < MaxOracleFailures
  /\ oracleLog' = Append(oracleLog,
                    OracleCall(OptimizedPath(ext.label.path), departure_time, FALSE, 0))
  /\ best_path' = BestAfterOracleErr.path
  /\ best_reduced_cost' = BestAfterOracleErr.reduced_cost
  /\ closures' = Append(closures, Closure("oracle_err"))
  /\ edgesLeft' = Tail(edgesLeft)
  /\ UNCHANGED <<inputVars, wOrder, cOrder, graph, pc, whIdx, labels, queue,
                 cur, run, firstResult, fifo,
                 explored>>

\* A proposed label that an already retained label of its node dominates.
Dominated ==
  /\ ArcStep
  /\ ext.kind = "feasible"
  /\ ~closing
  /\ is_dominated(Head(edgesLeft).v, ext.label.cost, ext.label.time,
                  ext.label.cap, labels)
  /\ edgesLeft' = Tail(edgesLeft)
  /\ UNCHANGED <<inputVars, wOrder, cOrder, graph, pc, whIdx, labels, queue,
                 cur, best_path, best_reduced_cost, oracleLog, closures, run,
                 firstResult, fifo,
                 explored>>

\* labels.entry(next_idx).or_default().push(..); queue.push_back(..)
Retain ==
  /\ ArcStep
  /\ ext.kind = "feasible"
  /\ ~closing
  /\ ~is_dominated(Head(edgesLeft).v, ext.label.cost, ext.label.time,
                   ext.label.cap, labels)
  /\ labels' = [labels EXCEPT ![Head(edgesLeft).v] = Append(@, ext.label)]
  /\ queue' = Append(queue, ext.label)
  /\ fifo' = [fifo EXCEPT !.pushed = Append(@, ext.label)]
  /\ explored' = [explored EXCEPT ![run].generated[whIdx] = Append(@, ext.label)]
  /\ edgesLeft' = Tail(edgesLeft)
  /\ UNCHANGED <<inputVars, wOrder, cOrder, graph, pc, whIdx, cur, best_path,
                 best_reduced_cost, oracleLog, closures, run, firstResult>>

\* ------------------------------------------------------- specification
Next ==
  \/ MainParseError
  \/ MainNew
  \/ DatePanic
  \/ StartWarehouse
  \/ Return
  \/ PopLabel
  \/ QueueEmpty
  \/ EdgesDone
  \/ SkipOtherWarehouse
  \/ SkipStopsOrDuplicate
  \/ RejectArrivesLate
  \/ RejectServiceLate
  \/ RejectOverCapacity
  \/ CloseNotImproving
  \/ CloseOracleOk
  \/ CloseOracleErr
  \/ Dominated
  \/ Retain

Spec == Init /\ [][Next]_vars

\* Every input of Init, the customer map iterating in ascending or in
\* descending id order.
InitFair == Init /\ (Ascending(cOrder) \/ Descending(cOrder))

\* The process is sequential and always takes its next step: the oracle call
\* is a blocking wait for a child process that returns Ok or Err.
SpecFair == InitFair /\ [][Next]_vars /\ WF_vars(Next)


\* ------------------------------------------------------- re-invocation
\* The solver is run again, as a new process, on the same input envelope:
\* the two HashMaps are rebuilt, and iterate in whatever order the new
\* process's hasher gives them.
Rerun ==
  /\ pc = "done"
  /\ run = 1
  /\ run' = 2
  /\ firstResult' = best_path
  /\ wOrder' \in Permutations_(DOMAIN warehouses)
  /\ cOrder' \in KeyOrders(DOMAIN customers)
  /\ graph' = << >>
  /\ pc' = "main"
  /\ whIdx' = 0
  /\ labels' = << >>
  /\ queue' = << >>
  /\ cur' = NoLabel
  /\ edgesLeft' = << >>
  /\ best_path' = << >>
  /\ best_reduced_cost' = 0
  /\ closures' = << >>
  /\ fifo' = [pushed |-> << >>, popped |-> << >>]
  /\ explored' = NothingExplored
  /\ UNCHANGED <<inputVars, oracleLog>>

NextRerun == Next \/ Rerun

SpecRerun == Init /\ [][NextRerun]_vars

\* The solver is run again on the same input envelope but for
\* allow_violate_time_window, which is the other way round, the two HashMaps
\* iterating as in the first invocation whose oracle calls all succeeded.
RerunFlipped ==
  /\ pc = "done"
  /\ run = 1
  /\ OracleFailures = 0
  /\ run' = 2
  /\ firstResult' = best_path
  /\ allow_violate_time_window' = ~allow_violate_time_window
  /\ graph' = << >>
  /\ pc' = "main"
  /\ whIdx' = 0
  /\ labels' = << >>
  /\ queue' = << >>
  /\ cur' = NoLabel
  /\ edgesLeft' = << >>
  /\ best_path' = << >>
  /\ best_reduced_cost' = 0
  /\ closures' = << >>
  /\ fifo' = [pushed |-> << >>, popped |-> << >>]
  /\ UNCHANGED <<envelope, warehouses, customers, dual_values, max_stops,
                 wOrder, cOrder, oracleLog, explored>>

NextFlipped == Next \/ RerunFlipped

SpecFlipped == Init /\ [][NextFlipped]_vars


\* ================================================================ claims
Result == best_path[1]

HasResult == best_path # << >>

Demand(node) == customers[node].capacity

RECURSIVE SumDemand(_)
SumDemand(path) ==
  IF path = << >> THEN 0
  ELSE (IF starts_with(Head(path), "C_") THEN Demand(Head(path)) ELSE 0)
         + SumDemand(Tail(path))

AllLabels ==
  Range(queue) \cup UNION {Range(labels[n]) : n \in DOMAIN labels}
    \cup (IF pc = "edges" THEN {cur} ELSE {})

Searching == pc \in {"pop", "edges"}

\* C1: every returned path starts and ends with the same warehouse, has only
\* customers in between, at least one of them, none twice, and at most
\* max_stops + 2 elements.
C1_Closure ==
  HasResult =>
    LET p == Result.path
    IN  /\ Len(p) >= 3
        /\ starts_with(p[1], "W_")
        /\ p[Len(p)] = p[1]
        /\ \A i \in 2..(Len(p) - 1) : starts_with(p[i], "C_")
        /\ \A i, j \in 2..(Len(p) - 1) : p[i] = p[j] => i = j
        /\ Len(p) <= max_stops + 2

\* A three-customer route has been returned with the refinement enabled.
C1_Witness ==
  /\ pc = "done"
  /\ HasResult
  /\ allow_violate_time_window
  /\ Len(Result.path) = 5

\* C2: every result has reduced_cost < 0, and no closure whose reduced cost
\* is 0 or more is ever recorded (it is never even sent to the oracle).
C2_Negativity ==
  /\ HasResult => Result.reduced_cost < 0
  /\ best_reduced_cost <= 0
  /\ \A i \in 1..Len(closures) :
       closures[i].reduced_cost >= 0 => closures[i].fate = "not_improving"

\* A result is returned in a run that also closed a route of reduced cost 0.
C2_Witness ==
  /\ pc = "done"
  /\ HasResult
  /\ \E i \in 1..Len(closures) : closures[i].reduced_cost = 0

\* C3: the reported capacity is the summed demand of the customers of the
\* reported path and is at most max_capacity, reordered or not.
C3_Capacity ==
  HasResult =>
    /\ Result.capacity = SumDemand(Result.path)
    /\ Result.capacity <= max_capacity

\* The returned path is a reordering of the label path of its closure.
C3_Witness ==
  /\ pc = "done"
  /\ HasResult
  /\ \E i \in 1..Len(closures) :
       /\ closures[i].fate = "oracle_ok"
       /\ closures[i].reduced_cost = Result.reduced_cost
       /\ closures[i].path # Result.path
       /\ Len(Result.path) = 5

\* Travel minutes of the arc u -> v as stored in the graph.
TravelTime(u, v) ==
  LET conn == SelectSeq(graph, LAMBDA e : e.u = u /\ e.v = v)
  IN  conn[1].travel_time

\* Driving a node sequence from instant t: wait for each window to open,
\* serve for service_time minutes; no customer is reached or finished late.
RECURSIVE WindowsRespected(_, _)
WindowsRespected(path, t) ==
  IF Len(path) < 2 THEN TRUE
  ELSE LET reach == t + TravelTime(path[1], path[2])
       IN  IF starts_with(path[2], "C_")
           THEN LET c == customers[path[2]]
                    arrival == IF reach < c.window_start THEN c.window_start ELSE reach
                IN  /\ arrival <= c.window_end
                    /\ arrival + service_time <= c.window_end
                    /\ WindowsRespected(Tail(path), arrival + service_time)
           ELSE WindowsRespected(Tail(path), reach)

\* C4: with allow_violate_time_window false, simulating the returned path
\* from the departure reaches and finishes every customer within its window.
C4_TimeWindows ==
  (HasResult /\ ~allow_violate_time_window) =>
    WindowsRespected(Result.path, departure_time)

\* A route of two customers or more, one of which is waited for, is returned.
C4_Witness ==
  /\ pc = "done"
  /\ HasResult
  /\ ~allow_violate_time_window
  /\ Len(Result.path) >= 4
  /\ WaitingMinutes(Result.path, departure_time) > 0

FinalReducedCost == IF HasResult THEN Result.reduced_cost ELSE 0

\* C5: at termination every closing extension generated with a reduced cost
\* below the returned one (below 0 when nothing is returned) went to the
\* oracle and the oracle failed on it.
C5_Minimality ==
  pc = "done" =>
    \A i \in 1..Len(closures) :
      closures[i].reduced_cost < FinalReducedCost => closures[i].fate = "oracle_err"

\* A run ended whose cheapest closure was lost to an oracle failure.
C5_Witness ==
  /\ pc = "done"
  /\ \E i \in 1..Len(closures) :
       /\ closures[i].reduced_cost < FinalReducedCost
       /\ closures[i].fate = "oracle_err"

WeaklyDominates(a, b) == a.cost <= b.cost /\ a.time <= b.time /\ a.cap <= b.cap

\* C6: the labels retained at a node never hold two labels one of which
\* weakly dominates the other on (cost, time, capacity).
C6_DominanceSoundness ==
  Searching =>
    \A n \in DOMAIN labels :
      \A i, j \in 1..Len(labels[n]) :
        i # j => ~WeaklyDominates(labels[n][i], labels[n][j])

\* The oracle gave the same answer whenever it was asked about the same route.
OracleConsistent ==
  \A i, j \in 1..Len(oracleLog) :
    (oracleLog[i].path = oracleLog[j].path /\ oracleLog[i].departure = oracleLog[j].departure)
      => (oracleLog[i].ok = oracleLog[j].ok /\ oracleLog[i].total_cost = oracleLog[j].total_cost)

\* C7: a second run on the same input, with a consistent oracle, returns the
\* result of the first run whatever the iteration orders of the two maps.
C7_Determinism ==
  (pc = "done" /\ run = 2 /\ OracleConsistent) => best_path = firstResult

\* C8: a failed oracle call leaves the best record and the threshold as they
\* were, the search goes on with the rest of the arcs and of the frontier,
\* and the closing label is neither retained nor queued.
C8_OracleFailure ==
  [][(Len(oracleLog') = Len(oracleLog) + 1 /\ ~oracleLog'[Len(oracleLog')].ok) =>
       /\ best_path' = best_path
       /\ best_reduced_cost' = best_reduced_cost
       /\ pc' = "edges"
       /\ edgesLeft' = Tail(edgesLeft)
       /\ cur' = cur
       /\ queue' = queue
       /\ labels' = labels
       /\ whIdx' = whIdx]_vars

\* The oracle has just failed on a candidate while an earlier best is held
\* and arcs and frontier labels remain.
C8_Witness ==
  /\ oracleLog # << >>
  /\ ~oracleLog[Len(oracleLog)].ok
  /\ closures[Len(closures)].fate = "oracle_err"
  /\ HasResult
  /\ pc = "edges"
  /\ edgesLeft # << >>
  /\ queue # << >>

\* C9: an unparseable planning_date stops the run in the driver, before the
\* search; find_negative_path is never entered with it.
C9_BadDateStopsInDriver ==
  envelope = "bad_date" => pc \in {"main", "exit_error"}

OnlyOrigin(path, origin) ==
  \A i \in 1..Len(path) : starts_with(path[i], "W_") => path[i] = origin

\* C10: no label of the search started from a warehouse, no closure and no
\* returned path contains another warehouse.
C10_SingleWarehouse ==
  /\ Searching => \A l \in AllLabels : OnlyOrigin(l.path, start_wh)
  /\ \A i \in 1..Len(closures) : OnlyOrigin(closures[i].path, closures[i].start)
  /\ HasResult => OnlyOrigin(Result.path, Result.path[1])

\* With two warehouses, the second search has passed arcs into the first
\* warehouse and a route of two customers or more is returned.
C10_Witness ==
  /\ pc = "done"
  /\ Len(wOrder) = 2
  /\ HasResult
  /\ Result.path[1] = wOrder[2]
  /\ Len(Result.path) >= 4

\* C11: a closure whose reduced cost equals the current best reduced cost
\* makes no oracle call and leaves the recorded path, costs and capacity as
\* they were: the candidate closed first stays the best.
C11_TiesKeepFirst ==
  [][(/\ Len(closures') = Len(closures) + 1
      /\ closures'[Len(closures')].reduced_cost = best_reduced_cost) =>
       /\ oracleLog' = oracleLog
       /\ best_path' = best_path
       /\ best_reduced_cost' = best_reduced_cost]_vars

\* A different route has just closed at exactly the negative reduced cost of
\* the recorded result.
C11_Witness ==
  /\ HasResult
  /\ closures # << >>
  /\ closures[Len(closures)].reduced_cost = Result.reduced_cost
  /\ closures[Len(closures)].best_before = Result.reduced_cost
  /\ closures[Len(closures)].fate = "not_improving"
  /\ closures[Len(closures)].path # Result.path
  /\ ~allow_violate_time_window

\* C12: on a well-formed input the search terminates: every warehouse's
\* frontier empties, the next warehouse is started, and find_negative_path
\* returns once all warehouses are exhausted.
C12_Termination ==
  (envelope = "ok") ~> (pc = "done" /\ whIdx = Len(wOrder) + 1 /\ queue = << >>)

\* The search over two warehouses and three customers has returned after
\* closing routes and meeting an oracle failure.
C12_Witness ==
  /\ pc = "done"
  /\ Len(wOrder) = 2
  /\ Len(cOrder) = 3
  /\ max_stops = 3
  /\ closures # << >>
  /\ OracleFailures > 0
  /\ fifo.popped = fifo.pushed
  /\ Len(fifo.popped) > 3

\* reduced_cost of the arc u -> v as stored in the graph.
ArcReduced(u, v) ==
  LET conn == SelectSeq(graph, LAMBDA e : e.u = u /\ e.v = v)
  IN  conn[1].reduced_cost

RECURSIVE SumReduced(_)
SumReduced(path) ==
  IF Len(path) < 2 THEN 0
  ELSE ArcReduced(path[1], path[2]) + SumReduced(Tail(path))

\* Every closed route with one customer or two distinct customers.
ShortRoutes ==
  {<<w, c, w>> : w \in DOMAIN warehouses, c \in DOMAIN customers}
    \cup {r \in {<<w, c1, c2, w>> :
                   w \in DOMAIN warehouses, c1 \in DOMAIN customers, c2 \in DOMAIN customers}
            : r[2] # r[3]}

NothingExcluded ==
  \A r \in ShortRoutes :
    WindowsRespected(r, departure_time) /\ SumDemand(r) <= max_capacity

OracleAlwaysOk == \A i \in 1..Len(oracleLog) : oracleLog[i].ok

AllDualsZero == \A k \in DOMAIN dual_values : dual_values[k] = 0

\* C14: when every dual value is zero or missing, every arc's reduced cost
\* is non-negative, no closure has a reduced cost below 0, the oracle is
\* never invoked and no result is recorded.
C14_ZeroDuals ==
  AllDualsZero =>
    /\ \A i \in 1..Len(graph) : graph[i].reduced_cost >= 0
    /\ \A i \in 1..Len(closures) : closures[i].reduced_cost >= 0
    /\ oracleLog = << >>
    /\ ~HasResult

\* A search over two warehouses and three customers, all duals zero or
\* missing, has closed routes and returned.
C14_Witness ==
  /\ pc = "done"
  /\ AllDualsZero
  /\ Len(wOrder) = 2
  /\ Len(cOrder) = 3
  /\ Len(closures) >= 3
  /\ \E k \in DOMAIN customers : k[2] \notin DOMAIN dual_values

\* C15: the reported reduced_cost is the sum of the arc reduced costs along
\* the reported path, whether or not the refinement has reordered it.
C15_ReducedCostOfReportedPath ==
  HasResult => Result.reduced_cost = SumReduced(Result.path)

\* Kilometres of a node sequence: the arc costs of the graph over cost_per_km.
RECURSIVE RouteKm(_)
RouteKm(path) ==
  IF Len(path) < 2 THEN 0
  ELSE LET conn == SelectSeq(graph, LAMBDA e : e.u = path[1] /\ e.v = path[2])
       IN  conn[1].cost \div cost_per_km + RouteKm(Tail(path))

Interior(path) == SubSeq(path, 2, Len(path) - 1)

\* C16: with the refinement enabled, each closed candidate handed to
\* optimize_path_order comes back between the same warehouse ends, with the
\* same customers, and with a total route distance no longer than before.
C16_TwoOptMonotonic ==
  allow_violate_time_window =>
    \A i \in 1..Len(closures) :
      closures[i].fate # "not_improving" =>
        /\ closures[i].sent[1] = closures[i].path[1]
        /\ closures[i].sent[Len(closures[i].sent)] = closures[i].path[Len(closures[i].path)]
        /\ Len(closures[i].sent) = Len(closures[i].path)
        /\ Range(Interior(closures[i].sent)) = Range(Interior(closures[i].path))
        /\ RouteKm(closures[i].sent) <= RouteKm(closures[i].path)

\* A three-customer candidate came back reordered and strictly shorter.
C16_Witness ==
  /\ allow_violate_time_window
  /\ \E i \in 1..Len(closures) :
       /\ closures[i].fate = "oracle_ok"
       /\ Len(closures[i].path) = 5
       /\ closures[i].sent # closures[i].path
       /\ RouteKm(closures[i].sent) < RouteKm(closures[i].path)

\* A non-closing label is being proposed by the arc at hand.
Proposing == ArcStep /\ ext.kind = "feasible" /\ ~closing

\* Some label retained at the proposed label's node weakly dominates it.
ProposalDominated ==
  \E l \in Range(labels[Head(edgesLeft).v]) : WeaklyDominates(l, ext.label)

Retained == UNION {Range(labels[n]) : n \in DOMAIN labels}

\* C17: a proposed non-closing label is retained at its node and pushed on
\* the frontier exactly when no label retained there in this warehouse's
\* search has cost, time and capacity all <= its own; a dominated proposal
\* changes neither the labels nor the frontier, so every label popped, and
\* the parent of every closure, is a retained label.
C17_RetainIffNotDominated ==
  [][/\ Proposing =>
          IF ProposalDominated
          THEN /\ queue' = queue
               /\ labels' = labels
               /\ fifo' = fifo
          ELSE /\ queue' = Append(queue, ext.label)
               /\ labels' = [labels EXCEPT ![Head(edgesLeft).v] = Append(@, ext.label)]
     /\ ~Proposing => (pc' = "pop" /\ pc = "next_wh") \/ Retained' = Retained
     /\ cur' # cur => cur' \in Retained
     /\ Len(closures') = Len(closures) + 1 =>
          /\ cur \in Retained
          /\ closures'[Len(closures')].path = Append(cur.path, closures'[Len(closures')].start)
    ]_vars

\* With labels retained and pushed before, the arc at hand proposes a label
\* that a retained label of its node dominates without being equal to it.
C17_Witness ==
  /\ Proposing
  /\ ProposalDominated
  /\ Len(fifo.pushed) >= 3
  /\ \E l \in Range(labels[Head(edgesLeft).v]) :
       /\ WeaklyDominates(l, ext.label)
       /\ l.cost < ext.label.cost

\* The arc at hand leads to a customer and passes the stop and duplicate tests.
ReachingCustomer ==
  /\ ArcStep
  /\ starts_with(Head(edgesLeft).v, "C_")
  /\ Cardinality({i \in 1..Len(cur.path) : cur.path[i][1] = "C_"}) < max_stops
  /\ \A i \in 1..Len(cur.path) : cur.path[i] # Head(edgesLeft).v

ShortWindow(node) ==
  customers[node].window_end - customers[node].window_start < service_time

NoShortWindowIn(path) ==
  \A i \in 1..Len(path) : starts_with(path[i], "C_") => ~ShortWindow(path[i])

\* C18: on an arc to customer v from a label with free time t, the arrival
\* is max(t + travel_time, ws); when the arrival or the arrival plus
\* service_time is after we nothing is retained, queued or closed, and a
\* label that is retained has time arrival + service_time.  No customer
\* whose window is shorter than service_time is in any label or result.
C18_WindowRule ==
  [][/\ ReachingCustomer =>
          LET v == Head(edgesLeft).v
              reach == cur.time + TravelTime(cur.path[Len(cur.path)], v)
              arrival == IF reach >= customers[v].window_start
                         THEN reach ELSE customers[v].window_start
          IN  IF \/ arrival > customers[v].window_end
                 \/ arrival + service_time > customers[v].window_end
              THEN /\ queue' = queue
                   /\ labels' = labels
                   /\ closures' = closures
                   /\ best_path' = best_path
              ELSE queue' # queue =>
                     /\ queue'[Len(queue')].path = Append(cur.path, v)
                     /\ queue'[Len(queue')].time = arrival + service_time
     /\ \A l \in Retained' \cup Range(queue') : NoShortWindowIn(l.path)
     /\ best_path' # << >> => NoShortWindowIn(best_path'[1].path)
    ]_vars

\* The search has returned a route on which the vehicle waited for a window,
\* among customers one of which has a window shorter than service_time and
\* the largest dual.
C18_Witness ==
  /\ pc = "done"
  /\ \E n \in DOMAIN customers :
       /\ ShortWindow(n)
       /\ n[2] \in DOMAIN dual_values
       /\ \A k \in DOMAIN dual_values : dual_values[k] <= dual_values[n[2]]
       /\ dual_values[n[2]] > 0
  /\ Len(cOrder) = 3
  /\ HasResult
  /\ Len(Result.path) = 4
  /\ WaitingMinutes(Result.path, departure_time) > 0

\* C19: with max_stops = 0 no customer is appended to any label, no closure
\* is generated, the oracle is never invoked and nothing is returned.
C19_NoStops ==
  max_stops = 0 =>
    /\ Searching => \A l \in AllLabels : Len(l.path) = 1
    /\ \A i \in 1..Len(fifo.pushed) : Len(fifo.pushed[i].path) = 1
    /\ closures = << >>
    /\ oracleLog = << >>
    /\ ~HasResult

\* The search with max_stops = 0 has gone through two warehouses and three
\* customers with positive duals and returned.
C19_Witness ==
  /\ pc = "done"
  /\ max_stops = 0
  /\ Len(wOrder) = 2
  /\ Len(cOrder) = 3
  /\ dual_values = DualCatalogue
  /\ Len(fifo.popped) = 1

\* C20: within one warehouse's search the labels popped are, in order, the
\* labels pushed, the queue holding exactly those pushed and not yet popped;
\* the label being expanded is the last one popped, and when the search of a
\* warehouse ends every pushed label has been popped exactly once.
C20_Fifo ==
  /\ Searching => fifo.pushed = fifo.popped \o queue
  /\ pc = "edges" => cur = fifo.popped[Len(fifo.popped)]
  /\ (pc \in {"next_wh", "done"}) => fifo.popped = fifo.pushed
  /\ \A i, j \in 1..Len(fifo.pushed) : fifo.pushed[i] = fifo.pushed[j] => i = j

\* In the middle of a search several labels have been popped while several
\* pushed later wait in the queue.
C20_Witness ==
  /\ Searching
  /\ Len(fifo.popped) >= 3
  /\ Len(queue) >= 2
  /\ fifo.pushed = fifo.popped \o queue

\* C21: warehouses are searched one after another.  A search begins with a
\* queue and a label store holding only (0, departure, 0, [W]); the search
\* moves to the next warehouse only from an empty queue; every retained
\* label belongs to the search in progress; the best record and the best
\* reduced cost are what passes from one warehouse to the next.
C21_WarehousesInTurn ==
  [][/\ (pc = "next_wh" /\ pc' = "pop") =>
          /\ queue' = <<[cost |-> 0, time |-> departure_time, cap |-> 0,
                         path |-> <<wOrder[whIdx]>>]>>
          /\ \A n \in DOMAIN labels' :
               labels'[n] = IF n = wOrder[whIdx] THEN queue' ELSE << >>
          /\ best_path' = best_path
          /\ best_reduced_cost' = best_reduced_cost
     /\ (whIdx' # whIdx /\ pc # "main") =>
          /\ pc = "pop"
          /\ queue = << >>
          /\ whIdx' = whIdx + 1
          /\ best_path' = best_path
          /\ best_reduced_cost' = best_reduced_cost
     /\ (pc' \in {"pop", "edges"}) =>
          \A l \in Retained' \cup Range(queue') : l.path[1] = wOrder[whIdx']
    ]_vars

\* The search from the second warehouse is under way with labels of its own,
\* holding the result recorded in the search from the first.
C21_Witness ==
  /\ Searching
  /\ whIdx = 2
  /\ HasResult
  /\ Result.path[1] = wOrder[1]
  /\ Len(fifo.pushed) >= 3
  /\ Cardinality(Retained) >= 3

\* The arc at hand leads back to the origin from a label with a customer.
ClosingArc ==
  /\ ArcStep
  /\ Head(edgesLeft).v = wOrder[whIdx]
  /\ \E i \in 1..Len(cur.path) : cur.path[i][1] = "C_"

WarehouseOnlyFirst(path) ==
  \A i \in 1..Len(path) : (path[i][1] = "W_") <=> (i = 1)

\* C22: a closing extension is neither queued nor retained, whatever became
\* of it (not improving, recorded, or lost to an oracle failure); every label
\* retained, queued or expanded has a warehouse at position 0 and nowhere else.
C22_ClosingNotExtended ==
  [][/\ ClosingArc =>
          /\ queue' = queue
          /\ labels' = labels
          /\ fifo' = fifo
          /\ cur' = cur
          /\ Len(closures') = Len(closures) + 1
     /\ (pc' \in {"pop", "edges"}) =>
          \A l \in Retained' \cup Range(queue') \cup Range(fifo'.popped) :
            WarehouseOnlyFirst(l.path)
     /\ pc' = "edges" => WarehouseOnlyFirst(cur'.path)
    ]_vars

\* Closing extensions of each fate have been generated and the frontier still
\* holds labels.
C22_Witness ==
  /\ Searching
  /\ queue # << >>
  /\ \A f \in {"not_improving", "oracle_ok", "oracle_err"} :
       \E i \in 1..Len(closures) : closures[i].fate = f /\ closures[i].start = start_wh

\* Reduced cost of the extension of the expanded label along the arc at hand.
ArcCost ==
  cur.cost + ArcReduced(cur.path[Len(cur.path)], Head(edgesLeft).v)

OracleCalls == Len(oracleLog)

\* C23: the oracle is called only on a closing arc whose reduced cost is
\* strictly below the best reduced cost of that moment, once, the arc being
\* consumed by the step; a closing arc that does not improve and every other
\* step make no call.  There are as many calls as closures that improved.
C23_OracleOnlyOnImprovement ==
  [][/\ Len(oracleLog') \in {OracleCalls, OracleCalls + 1}
     /\ Len(oracleLog') = OracleCalls + 1 =>
          /\ ClosingArc
          /\ ArcCost < best_reduced_cost
          /\ edgesLeft' = Tail(edgesLeft)
          /\ SubSeq(oracleLog', 1, OracleCalls) = oracleLog
     /\ (ClosingArc /\ ArcCost >= best_reduced_cost) => oracleLog' = oracleLog
     /\ Len(oracleLog') =
          Cardinality({i \in 1..Len(closures') : closures'[i].fate # "not_improving"})
    ]_vars

\* The search has returned after a failed call, a successful call and
\* closures that did not improve.
C23_Witness ==
  /\ pc = "done"
  /\ \E i, j \in 1..Len(oracleLog) : ~oracleLog[i].ok /\ oracleLog[j].ok
  /\ \E i \in 1..Len(closures) : closures[i].fate = "not_improving"
  /\ Len(closures) > Len(oracleLog)

\* The last call the oracle answered with Ok.
LastOk ==
  LET oks == {i \in 1..Len(oracleLog) : oracleLog[i].ok}
  IN  oracleLog[CHOOSE i \in oks : \A j \in oks : j <= i]

\* C24: the path of the result is the node sequence given to the last
\* successful oracle call, made with the departure instant of the search,
\* and the cost of the result is what that call returned.
C24_ResultIsOraclePath ==
  HasResult =>
    /\ \E i \in 1..Len(oracleLog) : oracleLog[i].ok
    /\ Result.path = LastOk.path
    /\ Result.cost = LastOk.total_cost
    /\ LastOk.departure = departure_hour * 60 - 6 * 60

\* The result holds a reordered path, recorded after an earlier failed call.
C24_Witness ==
  /\ pc = "done"
  /\ HasResult
  /\ allow_violate_time_window
  /\ ~oracleLog[1].ok
  /\ \E i \in 1..Len(closures) :
       /\ closures[i].fate = "oracle_ok"
       /\ closures[i].sent = Result.path
       /\ closures[i].path # Result.path

\* The closure that caused the i-th oracle call: the i-th that improved.
CallClosure(i) ==
  closures[CHOOSE k \in 1..Len(closures) :
             /\ closures[k].fate # "not_improving"
             /\ Cardinality({m \in 1..k : closures[m].fate # "not_improving"}) = i]

\* C25: every payload written for the oracle carries the final ordering, the
\* departure instant of the search and the parameter values of the input
\* envelope, allow_violate_time_window among them.
C25_PayloadCarriesInput ==
  \A i \in 1..Len(oracleLog) :
    /\ oracleLog[i].path = CallClosure(i).sent
    /\ oracleLog[i].departure = departure_hour * 60 - 6 * 60
    /\ oracleLog[i].cost_per_km = cost_per_km
    /\ oracleLog[i].speed_kmh = speed_kmh
    /\ oracleLog[i].service_minutes = service_time
    /\ oracleLog[i].max_capacity = max_capacity
    /\ oracleLog[i].max_stops = max_stops
    /\ oracleLog[i].allow_violate_time_window = allow_violate_time_window

\* C26: with allow_violate_time_window false the path given to the oracle,
\* and the path of the result, is the label path in the order the search
\* built it; with the flag true it is that path put through the 2-opt
\* refinement.
C26_RefinementGatedByFlag ==
  /\ \A i \in 1..Len(oracleLog) :
       oracleLog[i].path =
         IF allow_violate_time_window
         THEN optimize_path_order(CallClosure(i).path)
         ELSE CallClosure(i).path
  /\ (HasResult /\ ~allow_violate_time_window) =>
       \E i \in 1..Len(closures) :
         /\ closures[i].fate = "oracle_ok"
         /\ closures[i].path = Result.path
         /\ closures[i].reduced_cost = Result.reduced_cost

\* With the flag false a route is returned that the refinement would reorder.
C26_Witness ==
  /\ pc = "done"
  /\ ~allow_violate_time_window
  /\ HasResult
  /\ Len(Result.path) = 5
  /\ optimize_path_order(Result.path) # Result.path

\* C27: in every run of optimize_path_order, the pair examined after an
\* adopted reversal is the first pair of a new sweep ((0, 1) in the code's
\* numbering, (1, 2) here).
C27_SweepRestarts ==
  allow_violate_time_window =>
    \A c \in 1..Len(closures) :
      closures[c].fate # "not_improving" =>
        LET pairs == PairsExamined(closures[c].path)
        IN  \A k \in 1..(Len(pairs) - 1) :
              pairs[k].adopted => (pairs[k + 1].i = 1 /\ pairs[k + 1].j = 2)

\* s with its positions i..j in reverse order.
Reversed(s, i, j) ==
  [k \in 1..Len(s) |-> IF k < i \/ k > j THEN s[k] ELSE s[i + j - k]]

\* Number of pairs (i, j), i < j, of an interior of n customers.
PairCount(n) == (n * (n - 1)) \div 2

\* C28: optimize_path_order comes to an end on every closed candidate, its
\* last sweep adopting nothing, and no reversal of a contiguous part of the
\* interior it returns gives a strictly shorter route.
C28_TwoOptLocalOptimum ==
  allow_violate_time_window =>
    \A c \in 1..Len(closures) :
      closures[c].fate # "not_improving" =>
        LET sent == closures[c].sent
            inner == Interior(sent)
            n == Len(inner)
            pairs == PairsExamined(closures[c].path)
        IN  /\ \A i, j \in 1..n :
                 i < j =>
                   RouteKm(<<sent[1]>> \o Reversed(inner, i, j) \o <<sent[Len(sent)]>>)
                     >= RouteKm(sent)
            /\ Len(pairs) >= PairCount(n)
            /\ \A k \in (Len(pairs) - PairCount(n) + 1)..Len(pairs) : ~pairs[k].adopted

\* The refinement of a three-customer candidate took a sweep that adopted a
\* reversal and a second sweep that adopted none.
C28_Witness ==
  /\ allow_violate_time_window
  /\ \E c \in 1..Len(closures) :
       /\ closures[c].fate # "not_improving"
       /\ Len(closures[c].path) = 5
       /\ Len(PairsExamined(closures[c].path)) = 2 * PairCount(3)
       /\ \E k \in 1..PairCount(3) : PairsExamined(closures[c].path)[k].adopted

\* q holds the elements of p, each as many times as p does.
IsPermutationOf(q, p) ==
  /\ Len(q) = Len(p)
  /\ \A x \in Range(p) \cup Range(q) :
       Cardinality({k \in 1..Len(q) : q[k] = x}) = Cardinality({k \in 1..Len(p) : p[k] = x})

\* C29: optimize_path_order returns a path with the first and the last
\* element of its input and an interior that is a permutation of the input's
\* interior; a path of one customer comes back unchanged.
C29_TwoOptPermutes ==
  allow_violate_time_window =>
    \A c \in 1..Len(oracleLog) :
      LET given == CallClosure(c).path
          back == oracleLog[c].path
      IN  /\ Len(back) = Len(given)
          /\ back[1] = given[1]
          /\ back[Len(back)] = given[Len(given)]
          /\ IsPermutationOf(Interior(back), Interior(given))
          /\ Len(given) = 3 => back = given

\* Both a one-customer path and a three-customer path that came back in
\* another order were refined.
C29_Witness ==
  /\ allow_violate_time_window
  /\ \E c \in 1..Len(oracleLog) : Len(oracleLog[c].path) = 3
  /\ \E c \in 1..Len(oracleLog) :
       /\ Len(oracleLog[c].path) = 5
       /\ oracleLog[c].path # CallClosure(c).path

\* C30: every label retained or on the frontier has the origin warehouse of
\* the search at position 0, customers everywhere else, none of them twice,
\* and at most max_stops of them.
C30_LabelPathShape ==
  Searching =>
    \A l \in Retained \cup Range(queue) :
      /\ Len(l.path) >= 1
      /\ l.path[1] = wOrder[whIdx]
      /\ \A i \in 2..Len(l.path) : l.path[i][1] = "C_" /\ l.path[i] \in DOMAIN customers
      /\ \A i, j \in 2..Len(l.path) : l.path[i] = l.path[j] => i = j
      /\ Len(l.path) - 1 <= max_stops

\* Labels of one, two and three customers are retained and one of max_stops
\* customers waits on the frontier.
C30_Witness ==
  /\ Searching
  /\ max_stops = 3
  /\ \A n \in 1..3 : \E l \in Retained : Len(l.path) = n + 1
  /\ \E i \in 1..Len(queue) : Len(queue[i].path) = max_stops + 1

\* C31: every label retained at a customer node v has a time that is at
\* least window_start(v) + service_time, hence at least window_start(v), and
\* at most window_end(v).
C31_LabelTimeInWindow ==
  \A n \in DOMAIN labels :
    starts_with(n, "C_") =>
      \A i \in 1..Len(labels[n]) :
        /\ labels[n][i].time >= customers[n].window_start + service_time
        /\ labels[n][i].time >= customers[n].window_start
        /\ labels[n][i].time <= customers[n].window_end

\* A label is retained at a customer whose window the vehicle waited for, and
\* another, of two customers, at a customer reached after its window had
\* opened; the frontier is exhausted and a customer whose window is shorter
\* than service_time has no label.
C31_Witness ==
  /\ Searching
  /\ \E n \in DOMAIN labels :
       /\ starts_with(n, "C_")
       /\ customers[n].window_start > departure_time
       /\ \E i \in 1..Len(labels[n]) :
            labels[n][i].time = customers[n].window_start + service_time
  /\ \E n \in DOMAIN labels :
       /\ starts_with(n, "C_")
       /\ \E i \in 1..Len(labels[n]) :
            /\ labels[n][i].time > customers[n].window_start + service_time
            /\ Len(labels[n][i].path) >= 3
  /\ \E n \in DOMAIN customers :
       ShortWindow(n) /\ labels[n] = << >> /\ pc = "pop" /\ queue = << >>

\* C32: every label retained or on the frontier has a capacity equal to the
\* summed demand of the customers of its path and at most max_capacity, and
\* the closing arc back to the warehouse leaves the capacity unchanged: the
\* capacity recorded with a result is that of the label that was closed.
C32_LabelCapacity ==
  /\ [](\A l \in Retained \cup Range(queue) :
          /\ l.cap = SumDemand(l.path)
          /\ l.cap >= 0
          /\ l.cap <= max_capacity)
  /\ [][(ArcStep /\ best_path' # best_path) =>
          /\ best_path'[1].capacity = cur.cap
          /\ best_path'[1].capacity = SumDemand(cur.path)
       ]_vars

\* A result was recorded from a two-customer label that is still retained,
\* with that label's capacity, and the arc at hand leads to a customer whose
\* demand no longer fits.
C32_Witness ==
  /\ ArcStep
  /\ ext.kind = "over_capacity"
  /\ HasResult
  /\ Result.capacity = 2
  /\ \E l \in Retained :
       /\ Len(l.path) = 3
       /\ l.cap = Result.capacity
       /\ Range(l.path) = Range(Result.path)

\* Number of arcs of the graph from u to v.
ArcCount(u, v) ==
  Cardinality({i \in 1..Len(graph) : graph[i].u = u /\ graph[i].v = v})

\* PricingProblem::new has returned and the search has not started.
GraphBuilt == pc = "next_wh" /\ whIdx = 1

\* C33: the graph built by PricingProblem::new has exactly one arc from each
\* warehouse to each customer and back and exactly one arc for each ordered
\* pair of distinct customers, and nothing else: no arc from a node to
\* itself, no arc between warehouses, 2*|W|*|C| + |C|*(|C|-1) arcs in all,
\* hence none when there is no customer.
C33_GraphShape ==
  GraphBuilt =>
    /\ \A w \in DOMAIN warehouses : \A c \in DOMAIN customers :
         ArcCount(w, c) = 1 /\ ArcCount(c, w) = 1
    /\ \A c1, c2 \in DOMAIN customers : c1 # c2 => ArcCount(c1, c2) = 1
    /\ \A i \in 1..Len(graph) :
         /\ graph[i].u \in NodeSet
         /\ graph[i].v \in NodeSet
         /\ graph[i].u # graph[i].v
         /\ ~(starts_with(graph[i].u, "W_") /\ starts_with(graph[i].v, "W_"))
    /\ Len(graph) =
         2 * Cardinality(DOMAIN warehouses) * Cardinality(DOMAIN customers)
           + Cardinality(DOMAIN customers) * (Cardinality(DOMAIN customers) - 1)
    /\ (customers = << >>) => graph = << >>
    /\ (warehouses = << >>) =>
         \A i \in 1..Len(graph) :
           starts_with(graph[i].u, "C_") /\ starts_with(graph[i].v, "C_")

\* The graph of two warehouses and three customers has been built.
C33_Witness ==
  /\ GraphBuilt
  /\ Cardinality(DOMAIN warehouses) = 2
  /\ Cardinality(DOMAIN customers) = 3
  /\ Len(graph) = 18

\* The dual of customer node v: the entry of dual_values under the text of
\* v's numeric id, 0 when there is none.
DualOf(v) ==
  IF Decimal(customers[v].id) \in DOMAIN dual_values
  THEN dual_values[Decimal(customers[v].id)]
  ELSE 0

\* C34: for every arc u -> v of the graph, cost is cost_per_km times the
\* distance, and reduced_cost is cost minus the dual stored under the numeric
\* id of v when v is a customer (minus 0 when dual_values has no such entry)
\* and cost itself when v is a warehouse.
C34_ReducedCostOfArc ==
  GraphBuilt =>
    \A i \in 1..Len(graph) :
      /\ graph[i].cost =
           cost_per_km * Abs(get_coords(graph[i].v) - get_coords(graph[i].u))
      /\ graph[i].reduced_cost =
           IF graph[i].v \in DOMAIN customers
           THEN graph[i].cost - DualOf(graph[i].v)
           ELSE graph[i].cost

\* The graph has an arc between two customers with different duals, an arc
\* into a customer without an entry in dual_values, whose reduced cost is
\* its cost, and an arc into a warehouse.
C34_Witness ==
  /\ GraphBuilt
  /\ \E i \in 1..Len(graph) :
       /\ starts_with(graph[i].u, "C_")
       /\ starts_with(graph[i].v, "C_")
       /\ graph[i].u[2] \in DOMAIN dual_values
       /\ graph[i].v[2] \in DOMAIN dual_values
       /\ dual_values[graph[i].u[2]] # dual_values[graph[i].v[2]]
       /\ graph[i].reduced_cost = graph[i].cost - dual_values[graph[i].v[2]]
  /\ \E i \in 1..Len(graph) :
       /\ starts_with(graph[i].v, "C_")
       /\ graph[i].v[2] \notin DOMAIN dual_values
       /\ graph[i].cost > 0
       /\ graph[i].reduced_cost = graph[i].cost
  /\ \E i \in 1..Len(graph) :
       /\ starts_with(graph[i].v, "W_")
       /\ graph[i].u[2] \in DOMAIN dual_values
       /\ dual_values[graph[i].u[2]] > 0

\* Kilometres between two nodes, from their coordinates.
KmBetween(u, v) == Abs(get_coords(v) - get_coords(u))

\* The whole minutes m with m <= 60 * km / speed_kmh < m + 1.
WholeMinutes(u, v) ==
  CHOOSE m \in 0..60 :
    /\ m * speed_kmh <= 60 * KmBetween(u, v)
    /\ 60 * KmBetween(u, v) < (m + 1) * speed_kmh

\* 60 * km / speed_kmh has a fractional part of one half or more.
RoundsUp(u, v) == 2 * ((60 * KmBetween(u, v)) % speed_kmh) >= speed_kmh

\* C35: the travel_time of every arc is the whole number of minutes
\* 60 * distance / speed_kmh truncated toward zero, and a label pushed for a
\* customer has the time of the label it extends advanced by exactly that
\* number of minutes, then the wait for the window and the service.
C35_TruncatedMinutes ==
  /\ [](GraphBuilt =>
          \A i \in 1..Len(graph) :
            graph[i].travel_time = WholeMinutes(graph[i].u, graph[i].v))
  /\ [][(ArcStep /\ queue' # queue) =>
          LET v == Head(edgesLeft).v
              reach == cur.time + WholeMinutes(cur.path[Len(cur.path)], v)
          IN  /\ queue'[Len(queue')].path = Append(cur.path, v)
              /\ queue'[Len(queue')].time =
                   Max(reach, customers[v].window_start) + service_time
              /\ labels'[v][Len(labels'[v])].time = queue'[Len(queue')].time
       ]_vars

\* A label is retained at a customer reached without waiting over an arc
\* whose exact minutes have a fractional part of one half or more, its time
\* being the departure plus the truncated minutes plus the service.
C35_Witness ==
  /\ Searching
  /\ \E l \in Retained :
       /\ Len(l.path) = 2
       /\ RoundsUp(l.path[1], l.path[2])
       /\ WholeMinutes(l.path[1], l.path[2]) > 0
       /\ customers[l.path[2]].window_start < departure_time
       /\ l.time = departure_time + WholeMinutes(l.path[1], l.path[2]) + service_time
  /\ \E l \in Retained :
       /\ Len(l.path) = 3
       /\ RoundsUp(l.path[2], l.path[3])
       /\ \E k \in Retained :
            /\ k.path = SubSeq(l.path, 1, 2)
            /\ l.time = k.time + WholeMinutes(l.path[2], l.path[3]) + service_time

\* C36: the initial label of every starting warehouse departs at
\* departure_hour:00 of the planning date in the +06:00 zone, six hours
\* earlier on the UTC timeline of the customer windows (02:00 UTC for
\* departure_hour 8), and every oracle payload carries that same instant.
C36_DepartureInstant ==
  /\ Searching =>
       /\ fifo.pushed[1].path = <<wOrder[whIdx]>>
       /\ fifo.pushed[1].time = (departure_hour - 6) * 60
       /\ departure_hour = 8 => fifo.pushed[1].time = 2 * 60
       /\ labels[wOrder[whIdx]][1] = fifo.pushed[1]
  /\ \A i \in 1..Len(oracleLog) :
       /\ oracleLog[i].departure = (departure_hour - 6) * 60
       /\ departure_hour = 8 => oracleLog[i].departure = 2 * 60

\* The second warehouse is being searched, and the oracle has been called for
\* a route of the first warehouse and for a route of the second.
C36_Witness ==
  /\ Searching
  /\ whIdx = 2
  /\ \E i, j \in 1..Len(oracleLog) :
       /\ oracleLog[i].path[1] = wOrder[1]
       /\ oracleLog[j].path[1] = wOrder[2]

\* Oracle calls of invocation r.
CallsOf(r) == SelectSeq(oracleLog, LAMBDA c : c.run = r)

\* C37: of two invocations on the same input that differ only in
\* allow_violate_time_window, the oracle succeeding at every call, both
\* generate the same labels in the same order, refuse the same arcs on the
\* window and capacity tests, call the oracle as often, and return nothing or
\* results with the same reduced cost, the same capacity, the same warehouse
\* and the same set of customers.
C37_FlagDoesNotSteerSearch ==
  (pc = "done" /\ run = 2 /\ OracleFailures = 0) =>
    /\ explored[1].flag # explored[2].flag
    /\ explored[1].generated = explored[2].generated
    /\ explored[1].rejected = explored[2].rejected
    /\ Len(CallsOf(1)) = Len(CallsOf(2))
    /\ (firstResult = << >>) <=> (best_path = << >>)
    /\ HasResult =>
         /\ firstResult[1].reduced_cost = Result.reduced_cost
         /\ firstResult[1].capacity = Result.capacity
         /\ firstResult[1].path[1] = Result.path[1]
         /\ Len(firstResult[1].path) = Len(Result.path)
         /\ Range(firstResult[1].path) = Range(Result.path)

\* Both invocations are over, arcs were refused for arriving late and for
\* ending service late, and the two results visit the same three customers
\* in different orders.
C37_Witness ==
  /\ pc = "done"
  /\ run = 2
  /\ OracleFailures = 0
  /\ HasResult
  /\ Len(Result.path) = 5
  /\ firstResult[1].path # Result.path
  /\ Len(explored[2].generated[1]) >= 6
  /\ \E i, j \in 1..Len(explored[2].rejected[1]) :
       /\ explored[2].rejected[1][i].kind = "service_late"
       /\ explored[2].rejected[1][j].kind = "arrives_late"

====
